---- MODULE Spec2Model ----
(***************************************************************************)
(* The streaming relay (streamingServer.js) and the reconnecting upstream  *)
(* stream client (real-time-data-streaming.js, market-data kind, and its   *)
(* news-feed twin) of insightsentry-mcp-server.                            *)
(*                                                                         *)
(* One upstream client instance (one call of executeFunction and the       *)
(* closure it creates) and at most one relay session on top of it.         *)
(* JavaScript is run-to-completion: every event handler is one action, and *)
(* a promise reaction that is ready runs before any other event.           *)
(*                                                                         *)
(* The relay's handlers for a resolved handle (streamingServer.js:55-92)   *)
(* are checked against every behaviour of the factory: the call site       *)
(* passes no argument object (streamingServer.js:54), so Spec lets the     *)
(* factory's input range over ParamsSet, for the relay (Connection) as for *)
(* a direct call (Execute, as the unit tests do).  RelaySpec is the relay  *)
(* as it starts a session itself: the factory gets the empty argument      *)
(* object and the request may carry a query string.                        *)
(* An inbound message is its data with what the handler reads from it:     *)
(* whether it parses, whether it carries a timestamp and how old that is.  *)
(* ClientSpec is the connection life cycle of the client called directly,  *)
(* without inbound messages, which change nothing but the console.         *)
(* The tool modules construct the runtime's WebSocket while the relay      *)
(* tests the resolved value against the class of the ws package: whether   *)
(* that test succeeds is an input of the .then reaction.  Spec takes the   *)
(* piping branch, ForeignSocketSpec the other one.                         *)
(* RestSpec is the REST tool functions, which share no state with the      *)
(* streams.                                                                *)
(* A transport follows the WebSocket life cycle: CONNECTING, OPEN, CLOSING,*)
(* CLOSED, one close event per transport, an error event followed by the   *)
(* close event.                                                            *)
(***************************************************************************)
EXTENDS Integers, Sequences, FiniteSets, TLC

VARIABLES
    params,          \* the argument object of executeFunction
    promise,         \* the promise executeFunction returns
    handle,          \* the transport the promise was resolved with (0: none)
    transports,      \* every WebSocket the instance has constructed, in order
    ws,              \* closure variable ws: index of the current transport
    reconnectDelay,  \* closure variable reconnectDelay
    shouldReconnect, \* closure variable shouldReconnect
    timers,          \* pending setTimeout reconnect timers (their delays)
    dataGapInterval, \* closure variable dataGapInterval is non-null
    pingInterval,    \* closure variable pingInterval is non-null
    gapTimers,       \* number of live gap-check setInterval timers
    pingTimers,      \* number of live ping setInterval timers
    waits,           \* delays given to setTimeout since the last open event
    log,             \* the line the client's ws.onmessage last wrote to the console
    toolName,        \* relay: the path of the client connection ("" : none)
    reaction,        \* relay: state of the .then/.catch reaction
    piped,           \* relay: ws.onmessage / ws.onclose have been assigned
    client,          \* relay: the client channel (server side socket)
    arrived,         \* relay: the last message event on either piped socket
    rest             \* the last call of a REST tool function and what it returned

vars == <<params, promise, handle, transports, ws, reconnectDelay,
          shouldReconnect, timers, dataGapInterval, pingInterval, gapTimers,
          pingTimers, waits, log, toolName, reaction, piped, client, arrived,
          rest>>

clientVars == <<params, promise, handle, transports, ws, reconnectDelay,
                shouldReconnect, timers, dataGapInterval, pingInterval,
                gapTimers, pingTimers, waits, log>>

relayVars == <<toolName, reaction, piped, client, arrived>>

-----------------------------------------------------------------------------
(* Bounds of the model *)

MaxTransports == 5
MaxExtraSends == 1
MaxClientFrames == 2

(* Program constants *)

INITIAL_RECONNECT_DELAY == 2000
MAX_RECONNECT_DELAY == 10000
NORMAL_CLOSURE == 1000
POLICY_VIOLATION == 1008
INTERNAL_ERROR == 1011
STALE_DATA_THRESHOLD_MS == 10000

Min(a, b) == IF a <= b THEN a ELSE b

-----------------------------------------------------------------------------
(* Inputs.  An optional field is <<>> when missing and <<v>> when present. *)

Subscriptions == <<"NASDAQ:AAPL/series/minute/1", "NASDAQ:AAPL/quote">>

MarketParams ==
    [kind : {"market"},
     subscriptions : {<<>>, <<Subscriptions>>},
     websocketKey : {<<>>, <<"test_ws_key">>},
     symbols : {<<>>},
     keywords : {<<>>}]

NewsParams ==
    [kind : {"news"},
     subscriptions : {<<>>},
     websocketKey : {<<>>, <<"test_ws_key">>},
     symbols : {<<>>, << <<>> >>, << <<"AAPL">> >>},
     keywords : {<<>>, << <<>> >>, << <<"earnings">> >>}]

ParamsSet == MarketParams \cup NewsParams

\* Inbound upstream messages: event.data, whether JSON.parse accepts it, and
\* for a parsed object whether it carries a timestamp and, if so, its age
\* Date.now() - timestamp in ms when the handler looks at it.
Messages ==
    { [data |-> "pong", json |-> FALSE, hasTimestamp |-> FALSE, age |-> 0],
      [data |-> "not-json", json |-> FALSE, hasTimestamp |-> FALSE, age |-> 0],
      [data |-> "{title:X,timestamp:now}", json |-> TRUE,
       hasTimestamp |-> TRUE, age |-> 0],
      [data |-> "{title:Old,timestamp:now-20s}", json |-> TRUE,
       hasTimestamp |-> TRUE, age |-> 20000] }

Payloads == {"pong", "news"}

\* The query string of a relay request, as the parameters it spells out
\* (an array-valued parameter is written as JSON); NoQuery is a bare path.
Queries ==
    [symbols : {<<>>, << <<>> >>, << <<"AAPL">> >>, << <<"AAPL", "MSFT">> >>},
     keywords : {<<>>, << <<>> >>, << <<"earnings">> >>}]

NoQuery == [symbols |-> <<>>, keywords |-> <<>>]

\* toolFunction(): the relay calls the factory with no argument, params = {}
RelayCallArgs(kind) ==
    [kind |-> kind, subscriptions |-> <<>>, websocketKey |-> <<>>,
     symbols |-> <<>>, keywords |-> <<>>]

ToolNames == {"connect_news_feed", "connect_real_time_data_stream",
              "not_a_real_tool"}

ToolKind(name) ==
    IF name = "connect_news_feed" THEN "news"
    ELSE IF name = "connect_real_time_data_stream" THEN "market"
    ELSE "unknown"

-----------------------------------------------------------------------------
(* Frames.  A JSON frame is the ordered list of its <<key, value>> pairs   *)
(* (JSON.stringify keeps insertion order); a value is a list of tokens.    *)

TextFrame(s) == << <<"text", <<s>> >> >>

ErrorFrame(msg) == << <<"error", <<msg>> >> >>

MessageEventFrame(m) == << <<"MessageEvent", <<m>> >> >>

MarketAuthFrame(p) == << <<"type", <<"auth">> >>, <<"api_key", p.websocketKey>> >>

SubscribeFrame(p) ==
    << <<"api_key", p.websocketKey>>, <<"subscriptions", p.subscriptions[1]>> >>

NewsAuthFrame(p) == << <<"api_key", p.websocketKey>> >>

FilterSymbolsFrame(p) ==
    << <<"type", <<"filter_symbols">> >>, <<"symbols", p.symbols[1]>> >>

FilterKeywordsFrame(p) ==
    << <<"type", <<"filter_keywords">> >>, <<"keywords", p.keywords[1]>> >>

\* symbols && symbols.length > 0
NonEmptyList(opt) == opt # <<>> /\ Len(opt[1]) > 0

Handshake_subscribeFirst(p) ==
    IF p.kind = "market"
    THEN <<SubscribeFrame(p), MarketAuthFrame(p)>>
    ELSE (IF NonEmptyList(p.symbols) THEN <<FilterSymbolsFrame(p)>> ELSE <<>>)
         \o <<NewsAuthFrame(p)>>
         \o (IF NonEmptyList(p.keywords) THEN <<FilterKeywordsFrame(p)>> ELSE <<>>)

\* the frames ws.onopen sends, in order
Handshake(p) ==
    IF p.kind = "market"
    THEN <<MarketAuthFrame(p), SubscribeFrame(p)>>
    ELSE <<NewsAuthFrame(p)>>
         \o (IF NonEmptyList(p.symbols) THEN <<FilterSymbolsFrame(p)>> ELSE <<>>)
         \o (IF NonEmptyList(p.keywords) THEN <<FilterKeywordsFrame(p)>> ELSE <<>>)

OpenFrames_firstConnectOnly(p, pr) ==
    IF pr = "pending" THEN Handshake(p)
    ELSE IF p.kind = "market" THEN <<MarketAuthFrame(p)>> ELSE <<NewsAuthFrame(p)>>

\* what an open event sends, given the promise state at that time: the code
\* does not look at it
OpenFrames(p, pr) == Handshake(p)

ValidInput_keyUnchecked(p) ==
    IF p.kind = "market" THEN p.subscriptions # <<>> ELSE TRUE

\* the checks at the head of executeFunction
ValidInput(p) ==
    IF p.kind = "market"
    THEN p.subscriptions # <<>> /\ p.websocketKey # <<>>
    ELSE p.websocketKey # <<>>

-----------------------------------------------------------------------------
(* Pieces of the handlers *)

NextDelay_uncapped(d) == d * 2

\* Math.min(reconnectDelay * 2, MAX_RECONNECT_DELAY)
NextDelay(d) == Min(d * 2, MAX_RECONNECT_DELAY)

DelayOnOpen_noReset(d) == d

\* reconnectDelay = INITIAL_RECONNECT_DELAY in ws.onopen
DelayOnOpen(d) == INITIAL_RECONNECT_DELAY

PromiseOnError_rejects(pr) == IF pr = "pending" THEN "rejected" ELSE pr

\* ws.onerror of the reconnecting client leaves the promise alone
PromiseOnError(pr) == pr

ScheduleReconnect_twice(ts, d) == ts \o <<d, d>>

ScheduleReconnect_never(ts, d) == ts

\* setTimeout(() => {...}, reconnectDelay)
ScheduleReconnect(ts, d) == Append(ts, d)

\* WebSocket.close(): a connecting or open socket starts closing
CloseCall(st) == IF st \in {"CONNECTING", "OPEN"} THEN "CLOSING" ELSE st

RelayCloseUpstream_noClose(st) == st

\* relay ws.onclose: close the upstream if it is OPEN or CONNECTING
RelayCloseUpstream(st) ==
    IF st = "OPEN" \/ st = "CONNECTING" THEN CloseCall(st) ELSE st

RelayOnUpstreamClose_keepsOpen(c) == c

\* relay clientSocket.onclose: close the client with status 1000 if it is open
RelayOnUpstreamClose(c) ==
    IF c.state = "OPEN"
    THEN [c EXCEPT !.state = "CLOSING", !.closeCode = NORMAL_CLOSURE]
    ELSE c

\* dataTimestamp && (Date.now() - dataTimestamp > STALE_DATA_THRESHOLD_MS)
Stale(m) == m.hasTimestamp /\ m.age > STALE_DATA_THRESHOLD_MS

\* what the client's ws.onmessage does with a message: the console line
OnMessageLog(m) ==
    IF m.data = "pong" THEN <<"pong", m.data>>
    ELSE IF ~m.json THEN <<"Non-JSON", m.data>>
    ELSE IF Stale(m) THEN <<"Stale", m.data>>
    ELSE <<"Message", m.data>>

StateAfterMessage_failsOnGarbage(st, m) ==
    IF ~m.json /\ m.data # "pong" THEN "CLOSING" ELSE st

\* the client's ws.onmessage leaves the socket alone, the catch included
StateAfterMessage(st, m) == st

\* the message of the Error the factory rejects with
RejectionMessage(p) ==
    IF p.kind = "market"
    THEN IF p.subscriptions = <<>>
         THEN "subscriptions array is required for real-time data stream."
         ELSE "websocketKey parameter is required for real-time data stream."
    ELSE "websocketKey parameter is required for news feed streaming."

RelayUnknownTool_normalClose(name, q) ==
    [state |-> "CLOSING", frames |-> <<ErrorFrame("Unknown tool: " \o name)>>,
     closeCode |-> NORMAL_CLOSURE, closedIn |-> "", query |-> q,
     sendAfterClose |-> FALSE]

\* relay, unknown path: ws.send({error}); ws.close(1008, "Unknown tool")
RelayUnknownTool(name, q) ==
    [state |-> "CLOSING", frames |-> <<ErrorFrame("Unknown tool: " \o name)>>,
     closeCode |-> POLICY_VIOLATION, closedIn |-> "", query |-> q,
     sendAfterClose |-> FALSE]

RelayOnRejected_noClose(c, name, msg) ==
    IF c.state = "OPEN"
    THEN [c EXCEPT !.frames = Append(@,
            ErrorFrame("Error executing tool " \o name \o ": " \o msg))]
    ELSE c

\* relay .catch: if the client is OPEN, ws.send({error}); ws.close(1011, ...)
RelayOnRejected(c, name, msg) ==
    IF c.state = "OPEN"
    THEN [c EXCEPT !.frames = Append(@,
            ErrorFrame("Error executing tool " \o name \o ": " \o msg)),
                   !.state = "CLOSING",
                   !.closeCode = INTERNAL_ERROR]
    ELSE c

RelayOnUpstreamError_twice(c, name) ==
    IF c.state = "OPEN"
    THEN [c EXCEPT !.frames =
            @ \o <<ErrorFrame("Target WebSocket error for " \o name),
                   ErrorFrame("Target WebSocket error for " \o name)>>]
    ELSE c

RelayOnUpstreamError_alsoCloses(c, name) ==
    IF c.state = "OPEN"
    THEN [c EXCEPT !.frames = Append(@,
            ErrorFrame("Target WebSocket error for " \o name)),
                   !.state = "CLOSING",
                   !.closeCode = INTERNAL_ERROR]
    ELSE c

\* relay clientSocket.onerror: if the client is OPEN, ws.send({error})
RelayOnUpstreamError(c, name) ==
    IF c.state = "OPEN"
    THEN [c EXCEPT !.frames = Append(@,
            ErrorFrame("Target WebSocket error for " \o name))]
    ELSE c

RelayForward_duplicates(c, frame) ==
    IF c.state = "OPEN" THEN [c EXCEPT !.frames = @ \o <<frame, frame>>] ELSE c

RelayForward_unguarded(c, frame) == [c EXCEPT !.frames = Append(@, frame)]

\* relay clientSocket.onmessage: if the client is OPEN, ws.send(event.data)
RelayForward(c, frame) ==
    IF c.state = "OPEN" THEN [c EXCEPT !.frames = Append(@, frame)] ELSE c

\* relay .then, else branch: ws.send({message}) with no look at ws.readyState;
\* a send on a channel that is not open delivers nothing
RelayGreeting(c, name) ==
    IF c.state = "OPEN"
    THEN [c EXCEPT !.frames = Append(@,
            << <<"message", <<"Connected to " \o name>> >> >>)]
    ELSE [c EXCEPT !.sendAfterClose = TRUE]

Wire_all(trs, h) == [t \in 1..Len(trs) |-> [trs[t] EXCEPT !.wired = TRUE]]

\* relay .then: clientSocket.onmessage/onerror/onclose are assigned on the
\* one socket the promise was resolved with
Wire(trs, h) == [trs EXCEPT ![h].wired = TRUE]

NewTransport ==
    [state |-> "CONNECTING", sent |-> <<>>, opened |-> FALSE, wired |-> FALSE,
     stopped |-> FALSE]

\* WebSocket.send on transport i
Send(trs, i, frames) ==
    IF trs[i].state = "OPEN"
    THEN [trs EXCEPT ![i].sent = trs[i].sent \o frames]
    ELSE trs

RelayForwardUpstream_buffered(trs, h, m) ==
    [trs EXCEPT ![h].sent = Append(@, MessageEventFrame(m))]

\* relay ws.onmessage: if the upstream is OPEN, clientSocket.send(message),
\* message being the event the handler was called with
RelayForwardUpstream(trs, h, m) ==
    IF trs[h].state = "OPEN" THEN Send(trs, h, <<MessageEventFrame(m)>>) ELSE trs

Remove(s, i) == SubSeq(s, 1, i - 1) \o SubSeq(s, i + 1, Len(s))

\* a settled promise whose reaction has not run yet: it runs first
ReactionPending ==
    reaction = "registered" /\ promise \in {"resolved", "rejected"}

SessionState ==
    IF toolName = "" THEN "None"
    ELSE IF client.state # "OPEN" THEN "Closed"
    ELSE IF reaction = "registered" THEN "AwaitingUpstream"
    ELSE "Piping"

-----------------------------------------------------------------------------
(* The REST tool functions: one fetch, one parsed body or one error object *)

RestTools == {"fetch_financial_data", "get_latest_quote", "retrieve_latest_news",
              "get_symbol_info", "get_session_information",
              "fetch_economic_data"}

\* the tools whose executeFunction takes an optimize argument
Optimizable == {"fetch_financial_data", "get_symbol_info",
                "get_session_information"}

\* parsed response bodies: what the body is and whether it has a data field
Bodies == { [json |-> "{code,last_update,data}", hasData |-> TRUE],
            [json |-> "{message:bad}", hasData |-> FALSE],
            [json |-> "[]", hasData |-> FALSE] }

NoBody == [json |-> "", hasData |-> FALSE]

\* what fetch and response.json() do: fetch rejects, or it resolves with a
\* response whose ok flag is set or not and whose json() parses or throws
Responses ==
    {[fetch |-> "rejects", ok |-> FALSE, parses |-> FALSE, body |-> NoBody]}
    \cup [fetch : {"resolves"}, ok : BOOLEAN, parses : {TRUE}, body : Bodies]
    \cup [fetch : {"resolves"}, ok : BOOLEAN, parses : {FALSE}, body : {NoBody}]

ErrorText(tool) ==
    CASE tool = "fetch_financial_data" ->
           "An error occurred while fetching financial data."
      [] tool = "get_latest_quote" ->
           "An error occurred while fetching the latest quote."
      [] tool = "retrieve_latest_news" ->
           "An error occurred while retrieving the news feed."
      [] tool = "get_symbol_info" ->
           "An error occurred while retrieving symbol information."
      [] tool = "get_session_information" ->
           "An error occurred while retrieving session information."
      [] OTHER -> "An error occurred while fetching economic data."

\* return { error: '...' } in the catch
ErrorObject(tool) ==
    [settled |-> "fulfilled", error |-> <<ErrorText(tool)>>, body |-> NoBody,
     optimized |-> FALSE]

\* optimizeFinancialData and its like: a body without data comes back as is
Optimize(b) ==
    [settled |-> "fulfilled", error |-> <<>>, body |-> b, optimized |-> b.hasData]

ExecuteRest_noCatch(tool, optimize, r) ==
    IF r.fetch = "rejects" \/ ~r.ok \/ ~r.parses
    THEN [settled |-> "rejected", error |-> <<>>, body |-> NoBody,
          optimized |-> FALSE]
    ELSE [settled |-> "fulfilled", error |-> <<>>, body |-> r.body,
          optimized |-> FALSE]

\* executeFunction of a REST tool: the value its promise settles with
ExecuteRest(tool, optimize, r) ==
    IF r.fetch = "rejects" THEN ErrorObject(tool)
    ELSE IF ~r.ok THEN ErrorObject(tool)
    ELSE IF ~r.parses THEN ErrorObject(tool)
    ELSE IF optimize /\ tool \in Optimizable THEN Optimize(r.body)
    ELSE [settled |-> "fulfilled", error |-> <<>>, body |-> r.body,
          optimized |-> FALSE]

-----------------------------------------------------------------------------

Init ==
    /\ params \in ParamsSet
    /\ promise = "none"
    /\ handle = 0
    /\ transports = <<>>
    /\ ws = 0
    /\ reconnectDelay = INITIAL_RECONNECT_DELAY
    /\ shouldReconnect = TRUE
    /\ timers = <<>>
    /\ dataGapInterval = FALSE
    /\ pingInterval = FALSE
    /\ gapTimers = 0
    /\ pingTimers = 0
    /\ waits = <<>>
    /\ log = <<>>
    /\ toolName = ""
    /\ reaction = "none"
    /\ piped = FALSE
    /\ client = [state |-> "NONE", frames |-> <<>>, closeCode |-> 0,
                 closedIn |-> "",
                 query |-> NoQuery, sendAfterClose |-> FALSE]
    /\ arrived = <<>>
    /\ rest = <<>>

\* connect(): ws = new WebSocket(wsUrl), with the four handlers assigned
Connect ==
    /\ transports' = Append(transports, NewTransport)
    /\ ws' = Len(transports) + 1

\* the body of executeFunction(params)
ExecuteFunction ==
    IF ~ValidInput(params)
    THEN /\ promise' = "rejected"
         /\ UNCHANGED <<transports, ws>>
    ELSE /\ promise' = "pending"
         /\ Connect

\* a direct call apiTool.function(params)
Execute ==
    /\ promise = "none"
    /\ toolName = ""
    /\ ExecuteFunction
    /\ UNCHANGED <<params, handle, reconnectDelay, shouldReconnect, timers,
                   dataGapInterval, pingInterval, gapTimers, pingTimers, waits, log>>
    /\ UNCHANGED relayVars
    /\ UNCHANGED <<arrived, rest>>

\* the open event of transport t: ws.onopen
TransportOpen(t) ==
    /\ ~ReactionPending
    /\ transports[t].state = "CONNECTING"
    /\ reconnectDelay' = DelayOnOpen(reconnectDelay)
    /\ transports' =
         Send([transports EXCEPT ![t].state = "OPEN", ![t].opened = TRUE],
              ws, OpenFrames(params, promise))
    /\ gapTimers' = IF dataGapInterval THEN gapTimers ELSE gapTimers + 1
    /\ dataGapInterval' = TRUE
    /\ pingTimers' = IF pingInterval THEN pingTimers ELSE pingTimers + 1
    /\ pingInterval' = TRUE
    /\ IF promise = "pending"
       THEN promise' = "resolved" /\ handle' = ws
       ELSE UNCHANGED <<promise, handle>>
    /\ waits' = <<>>
    /\ UNCHANGED <<params, ws, shouldReconnect, timers, log>>
    /\ UNCHANGED relayVars
    /\ UNCHANGED <<arrived, rest>>

\* the 20 s ping interval callback
PingTick ==
    /\ ~ReactionPending
    /\ pingTimers > 0
    /\ transports[ws].state = "OPEN"
    /\ Len(transports[ws].sent) < Len(Handshake(params)) + MaxExtraSends
    /\ transports' = Send(transports, ws, <<TextFrame("ping")>>)
    /\ UNCHANGED <<params, promise, handle, ws, reconnectDelay, shouldReconnect,
                   timers, dataGapInterval, pingInterval, gapTimers, pingTimers,
                   waits, log>>
    /\ UNCHANGED relayVars
    /\ UNCHANGED <<arrived, rest>>

\* a message event of transport t: the client's ws.onmessage logs or discards
\* (the time it notes in lastDataTimestamp feeds only the gap warning, which is
\* console output the model leaves out); the relay's clientSocket.onmessage, once assigned in
\* its place, forwards event.data to an open client
UpstreamMessage(t, m) ==
    /\ ~ReactionPending
    /\ transports[t].state = "OPEN"
    /\ IF transports[t].wired
       THEN /\ client.state = "OPEN" => Len(client.frames) < MaxClientFrames
            /\ client' = RelayForward(client, TextFrame(m.data))
            /\ arrived' = <<"upstream", m.data>>
            /\ UNCHANGED <<transports, log>>
       ELSE /\ log' = OnMessageLog(m)
            /\ transports' =
                 [transports EXCEPT
                    ![t].state = StateAfterMessage(transports[t].state, m)]
            /\ UNCHANGED <<client, arrived>>
    /\ UNCHANGED <<params, promise, handle, ws, reconnectDelay, shouldReconnect,
                   timers, dataGapInterval, pingInterval, gapTimers, pingTimers,
                   waits>>
    /\ UNCHANGED <<toolName, reaction, piped>>
    /\ UNCHANGED rest

\* an error event of transport t (a close event follows it): the client's
\* ws.onerror calls ws.close(); the relay's clientSocket.onerror sends an
\* error frame to an open client
TransportError(t) ==
    /\ ~ReactionPending
    /\ transports[t].state \in {"CONNECTING", "OPEN"}
    /\ IF transports[t].wired
       THEN /\ client.state = "OPEN" => Len(client.frames) < MaxClientFrames
            /\ transports' = [transports EXCEPT ![t].state = "CLOSING"]
            /\ client' = RelayOnUpstreamError(client, toolName)
            /\ UNCHANGED promise
       ELSE /\ LET failing == [transports EXCEPT ![t].state = "CLOSING"]
               IN transports' =
                    [failing EXCEPT ![ws].state = CloseCall(failing[ws].state)]
            /\ promise' = PromiseOnError(promise)
            /\ UNCHANGED client
    /\ UNCHANGED <<params, handle, ws, reconnectDelay, shouldReconnect, timers,
                   dataGapInterval, pingInterval, gapTimers, pingTimers, waits, log>>
    /\ UNCHANGED <<toolName, reaction, piped>>
    /\ UNCHANGED <<arrived, rest>>

\* the close event of transport t: the client's ws.onclose stops the timers
\* and schedules a reconnect; the relay's clientSocket.onclose closes the
\* client channel
TransportClose(t) ==
    /\ ~ReactionPending
    /\ transports[t].state \in {"OPEN", "CLOSING"}
    /\ transports[t].wired \/ Len(transports) < MaxTransports
    /\ transports' = [transports EXCEPT ![t].state = "CLOSED"]
    /\ IF transports[t].wired
       THEN /\ client' = RelayOnUpstreamClose(client)
            /\ UNCHANGED <<timers, dataGapInterval, pingInterval, gapTimers,
                           pingTimers, waits>>
       ELSE /\ gapTimers' = IF dataGapInterval THEN gapTimers - 1 ELSE gapTimers
            /\ dataGapInterval' = FALSE
            /\ pingTimers' = IF pingInterval THEN pingTimers - 1 ELSE pingTimers
            /\ pingInterval' = FALSE
            /\ IF shouldReconnect
               THEN /\ timers' = ScheduleReconnect(timers, reconnectDelay)
                    /\ waits' = Append(waits, reconnectDelay)
               ELSE UNCHANGED <<timers, waits>>
            /\ UNCHANGED client
    /\ UNCHANGED <<params, promise, handle, ws, reconnectDelay, shouldReconnect,
                   log>>
    /\ UNCHANGED <<toolName, reaction, piped>>
    /\ UNCHANGED <<arrived, rest>>

\* a reconnect timer fires: double the delay up to the ceiling, connect()
TimerFire(i) ==
    /\ ~ReactionPending
    /\ i \in 1..Len(timers)
    /\ Len(transports) < MaxTransports
    /\ timers' = Remove(timers, i)
    /\ reconnectDelay' = NextDelay(reconnectDelay)
    /\ Connect
    /\ UNCHANGED <<params, promise, handle, shouldReconnect, dataGapInterval,
                   pingInterval, gapTimers, pingTimers, waits, log>>
    /\ UNCHANGED relayVars
    /\ UNCHANGED <<arrived, rest>>

-----------------------------------------------------------------------------
(* The relay *)

\* wss.on("connection"): route by path, call the factory, register .then/.catch
Connection(name, q) ==
    /\ toolName = ""
    /\ promise = "none"
    /\ toolName' = name
    /\ piped' = FALSE
    /\ IF ToolKind(name) = "unknown"
       THEN /\ client' = RelayUnknownTool(name, q)
            /\ reaction' = "none"
            /\ UNCHANGED <<promise, transports, ws>>
       ELSE /\ ToolKind(name) = params.kind
            /\ client' = [state |-> "OPEN", frames |-> <<>>, closeCode |-> 0,
                          closedIn |-> "", query |-> q,
                          sendAfterClose |-> FALSE]
            /\ reaction' = "registered"
            /\ ExecuteFunction
    /\ UNCHANGED <<params, handle, reconnectDelay, shouldReconnect, timers,
                   dataGapInterval, pingInterval, gapTimers, pingTimers, waits, log>>
    /\ UNCHANGED <<arrived, rest>>

\* .then(clientSocket => ...): if the value is an instance of the relay's
\* WebSocket class, assign the relay's handlers to it, else greet the client
OnFulfilled(instanceOfWebSocket) ==
    /\ reaction = "registered"
    /\ promise = "resolved"
    /\ reaction' = "done"
    /\ IF instanceOfWebSocket
       THEN /\ transports' = Wire(transports, handle)
            /\ piped' = TRUE
            /\ UNCHANGED client
       ELSE /\ client' = RelayGreeting(client, toolName)
            /\ UNCHANGED <<transports, piped>>
    /\ UNCHANGED <<params, promise, handle, ws, reconnectDelay, shouldReconnect,
                   timers, dataGapInterval, pingInterval, gapTimers, pingTimers,
                   waits, log, toolName>>
    /\ UNCHANGED <<arrived, rest>>

\* .catch(error => ...): error frame, then close with status 1011
OnRejected ==
    /\ reaction = "registered"
    /\ promise = "rejected"
    /\ reaction' = "done"
    /\ client' = RelayOnRejected(client, toolName, RejectionMessage(params))
    /\ UNCHANGED clientVars
    /\ UNCHANGED <<toolName, piped>>
    /\ UNCHANGED <<arrived, rest>>

\* the close event of the client channel: ws.onclose, once it is assigned
ClientClose ==
    /\ ~ReactionPending
    /\ client.state \in {"OPEN", "CLOSING"}
    /\ client' = [client EXCEPT !.state = "CLOSED", !.closedIn = SessionState]
    /\ IF piped
       THEN transports' =
              [transports EXCEPT
                 ![handle].state = RelayCloseUpstream(transports[handle].state)]
       ELSE UNCHANGED transports
    /\ UNCHANGED <<params, promise, handle, ws, reconnectDelay, shouldReconnect,
                   timers, dataGapInterval, pingInterval, gapTimers, pingTimers,
                   waits, log, toolName, reaction, piped>>
    /\ UNCHANGED <<arrived, rest>>

\* a message event of the client channel: ws.onmessage, once it is assigned,
\* sends the event it got to an open upstream; before that the channel has no
\* message handler and the event is lost
ClientMessage(m) ==
    /\ ~ReactionPending
    /\ client.state = "OPEN"
    /\ piped =>
          Len(transports[handle].sent) < Len(Handshake(params)) + MaxExtraSends
    /\ arrived' = <<"client", m>>
    /\ transports' =
         IF piped
         THEN RelayForwardUpstream(transports, handle, m)
         ELSE transports
    /\ UNCHANGED <<params, promise, handle, ws, reconnectDelay, shouldReconnect,
                   timers, dataGapInterval, pingInterval, gapTimers, pingTimers,
                   waits, log>>
    /\ UNCHANGED <<toolName, reaction, piped, client, rest>>

\* the caller closes the handle it was given: handle.close(), the one way the
\* client offers to end a stream
CallerClose ==
    /\ toolName = ""
    /\ promise = "resolved"
    /\ transports[handle].state = "OPEN"
    /\ transports' =
         [transports EXCEPT ![handle].state = CloseCall(transports[handle].state),
                            ![handle].stopped = TRUE]
    /\ UNCHANGED <<params, promise, handle, ws, reconnectDelay, shouldReconnect,
                   timers, dataGapInterval, pingInterval, gapTimers, pingTimers,
                   waits, log>>
    /\ UNCHANGED relayVars
    /\ UNCHANGED <<arrived, rest>>

\* a call of a REST tool function, run to the settling of its promise
RestCall(tool, optimize, r) ==
    /\ rest' = [tool |-> tool, optimize |-> optimize, response |-> r,
                result |-> ExecuteRest(tool, optimize, r)]
    /\ UNCHANGED clientVars
    /\ UNCHANGED relayVars

-----------------------------------------------------------------------------

ClientNext ==
    \/ Execute
    \/ \E t \in 1..Len(transports) : TransportOpen(t)
    \/ PingTick
    \/ CallerClose
    \/ \E t \in 1..Len(transports) : TransportError(t)
    \/ \E t \in 1..Len(transports) : TransportClose(t)
    \/ \E i \in 1..Len(timers) : TimerFire(i)

Next ==
    \/ Execute
    \/ \E t \in 1..Len(transports) : TransportOpen(t)
    \/ PingTick
    \/ \E t \in 1..Len(transports), m \in Messages : UpstreamMessage(t, m)
    \/ CallerClose
    \/ \E t \in 1..Len(transports) : TransportError(t)
    \/ \E t \in 1..Len(transports) : TransportClose(t)
    \/ \E i \in 1..Len(timers) : TimerFire(i)
    \/ \E name \in ToolNames : Connection(name, NoQuery)
    \/ OnFulfilled(TRUE)
    \/ OnRejected
    \/ ClientClose
    \/ \E m \in Payloads : ClientMessage(m)

\* the relay with the upstream client under it
Spec == Init /\ [][Next]_vars

\* a relay session as the relay starts it: the factory gets the arguments the
\* relay passes, the request may carry a query string
RelayInit == Init /\ params = RelayCallArgs(params.kind)

RelayNext ==
    \/ \E name \in ToolNames, q \in Queries : Connection(name, q)
    \/ OnRejected
    \/ ClientClose

RelaySpec == RelayInit /\ [][RelayNext]_vars

\* a relay session whose factory resolves with a socket of another class
\* than the relay's (the tools construct the runtime's WebSocket, the relay
\* tests against the class of the ws package): connection events only
ForeignNext ==
    \/ \E name \in ToolNames : Connection(name, NoQuery)
    \/ \E t \in 1..Len(transports) : TransportOpen(t)
    \/ \E t \in 1..Len(transports) : TransportError(t)
    \/ \E t \in 1..Len(transports) : TransportClose(t)
    \/ \E i \in 1..Len(timers) : TimerFire(i)
    \/ OnFulfilled(FALSE)
    \/ OnRejected
    \/ ClientClose

ForeignSocketSpec == Init /\ [][ForeignNext]_vars

\* the REST tools, called one after another
RestNext ==
    \E tool \in RestTools, optimize \in BOOLEAN, r \in Responses :
        RestCall(tool, optimize, r)

\* no stream is started: the argument object of the stream factory stays empty
RestInit == Init /\ params = RelayCallArgs("news")

RestSpec == RestInit /\ [][RestNext]_vars

\* the upstream client called directly
ClientSpec == Init /\ [][ClientNext]_vars

\* timers fire: a pending setTimeout callback is eventually run
FairClientSpec == ClientSpec /\ WF_vars(\E i \in 1..Len(timers) : TimerFire(i))

-----------------------------------------------------------------------------
(* Properties *)

RECURSIVE Pow2(_)
Pow2(n) == IF n = 0 THEN 1 ELSE 2 * Pow2(n - 1)

Prefix(s, n) == IF Len(s) >= n THEN SubSeq(s, 1, n) ELSE s

Closing(t) == transports[t].state \in {"CLOSING", "CLOSED"}

\* malformed input as the contract words it
Malformed(p) ==
    \/ p.kind = "market" /\ (p.subscriptions = <<>> \/ p.websocketKey = <<>>)
    \/ p.kind = "news" /\ p.websocketKey = <<>>

\* the handshake as the contract words it: auth first, then the subscription
\* payloads in their fixed order
ExpectedHandshake(p) ==
    IF p.kind = "market"
    THEN << << <<"type", <<"auth">> >>, <<"api_key", p.websocketKey>> >>,
            << <<"api_key", p.websocketKey>>,
               <<"subscriptions", p.subscriptions[1]>> >> >>
    ELSE << << <<"api_key", p.websocketKey>> >> >>
         \o (IF p.symbols # <<>> /\ p.symbols[1] # <<>>
             THEN << << <<"type", <<"filter_symbols">> >>,
                        <<"symbols", p.symbols[1]>> >> >>
             ELSE <<>>)
         \o (IF p.keywords # <<>> /\ p.keywords[1] # <<>>
             THEN << << <<"type", <<"filter_keywords">> >>,
                        <<"keywords", p.keywords[1]>> >> >>
             ELSE <<>>)

\* C1: when the client channel of a piping session closes, the upstream
\* handle is closing or closed after that step, and from then on no reconnect
\* timer is pending, no new transport is constructed and the handle stays
\* closing or closed.
C1_ClientCloseClosesHandle ==
    [][ /\ (SessionState = "Piping" /\ client'.state = "CLOSED")
             => transports'[handle].state \in {"CLOSING", "CLOSED"}
        /\ (client.closedIn = "Piping")
             => /\ Len(transports') = Len(transports)
                /\ timers' = <<>>
                /\ transports'[handle].state \in {"CLOSING", "CLOSED"} ]_vars

C1_Witness ==
    /\ client.closedIn = "Piping"
    /\ client.closeCode = 0
    /\ transports[handle].state = "CLOSED"

\* C2: once the client channel is closed and the factory promise has
\* resolved with a handle and its reaction has run, the upstream handle is
\* closing or closed, whichever of the two came first.
C2_ClosedClientClosesHandle ==
    (toolName # "" /\ client.state = "CLOSED" /\ promise = "resolved"
       /\ reaction = "done")
        => Closing(handle)

\* C3: when the upstream handle of a piping session closes, the same step
\* closes the open client channel with status 1000 and the session is Closed.
C3_UpstreamCloseClosesClient ==
    [][ (SessionState = "Piping" /\ transports[handle].state # "CLOSED"
           /\ transports'[handle].state = "CLOSED")
          => /\ client'.state = "CLOSING"
             /\ client'.closeCode = 1000
             /\ client'.frames = client.frames
             /\ SessionState' = "Closed" ]_vars

C3_Witness ==
    /\ piped
    /\ transports[handle].state = "CLOSED"
    /\ client.state = "CLOSING"
    /\ client.closeCode = 1000

\* C4: the k-th wait of a run of closes with no open in between is
\* min(2000 * 2^(k-1), 10000) ms.
C4_BackoffSequence ==
    \A k \in 1..Len(waits) :
        waits[k] = Min(2000 * Pow2(k - 1), 10000)

C4_Witness == Len(waits) >= 4 /\ waits[3] = 8000 /\ waits[4] = 10000

\* C5: while a transport is open the reconnect delay is 2000 ms, and the
\* reconnect timer started by the close of a transport that had opened waits
\* 2000 ms.
C5_DelayResetOnOpen ==
    \A t \in 1..Len(transports) :
        /\ transports[t].state = "OPEN" => reconnectDelay = 2000
        /\ (t = Len(transports) /\ transports[t].opened /\ ~transports[t].wired
              /\ transports[t].state = "CLOSED")
             => (timers = <<2000>> /\ waits = <<2000>>)

C5_Witness ==
    /\ Len(transports) = 3
    /\ ~transports[1].opened
    /\ ~transports[2].opened
    /\ transports[3].opened
    /\ transports[3].state = "CLOSED"
    /\ timers = <<2000>>

\* C6: after a call with malformed input the promise is rejected, no
\* transport was constructed, no interval timer runs and no reconnect is
\* scheduled.
C6_MalformedInputRejected ==
    (promise # "none" /\ Malformed(params))
        => /\ promise = "rejected"
           /\ transports = <<>>
           /\ ws = 0
           /\ timers = <<>>
           /\ gapTimers = 0
           /\ pingTimers = 0

C6_Witness ==
    /\ promise = "rejected"
    /\ params.kind = "market"
    /\ params.subscriptions # <<>>
    /\ params.websocketKey = <<>>

\* C7: for well-formed input the promise is never rejected, whatever error
\* and close events the transports see.
C7_OnlyValidationRejects ==
    ~Malformed(params) => promise # "rejected"

C7_Witness ==
    /\ ~Malformed(params)
    /\ promise = "resolved"
    /\ handle = 2
    /\ transports[1].state = "CLOSED"
    /\ transports[2].state = "CLOSED"
    /\ Len(transports) >= 3

\* C8: every closed transport is eventually followed by the construction of
\* a new one.
C8_CloseLeadsToReconnect ==
    \A t \in 1..(MaxTransports - 1) :
        (Len(transports) >= t /\ transports[t].state = "CLOSED")
            ~> (Len(transports) > t)

C8_Witness ==
    /\ Len(transports) = MaxTransports
    /\ \A t \in 1..(MaxTransports - 1) : transports[t].state = "CLOSED"

\* C9: a transport that has not opened has sent nothing; one that has opened
\* sent the auth frame first and then the subscription frames in their fixed
\* order; a resolved promise holds a handle on which all of them were sent.
C9_HandshakeOrder ==
    /\ \A t \in 1..Len(transports) :
          IF transports[t].opened
          THEN Prefix(transports[t].sent, Len(ExpectedHandshake(params)))
                 = ExpectedHandshake(params)
          ELSE transports[t].sent = <<>>
    /\ promise = "resolved"
         => /\ handle \in 1..Len(transports)
            /\ transports[handle].opened
            /\ Len(transports[handle].sent) >= Len(ExpectedHandshake(params))

C9_Witness ==
    /\ params.kind = "news"
    /\ promise = "resolved"
    /\ Len(transports[handle].sent) = 3
    /\ transports[handle].sent[2][1][2] = <<"filter_symbols">>
    /\ transports[handle].sent[3][1][2] = <<"filter_keywords">>

\* C10: every transport that opened after the first one sent, frame by frame
\* and in the same order, the handshake frames the first one sent.
C10_ReplayIdentical ==
    \A t \in 1..Len(transports) :
        (promise = "resolved" /\ transports[t].opened)
            => Prefix(transports[t].sent, Len(ExpectedHandshake(params)))
                 = Prefix(transports[handle].sent, Len(ExpectedHandshake(params)))

C10_Witness ==
    /\ params.kind = "market"
    /\ promise = "resolved"
    /\ \E t \in 1..Len(transports) :
          /\ t > handle + 1
          /\ transports[t].opened
          /\ Len(transports[t].sent) = 2
          /\ Len(transports[handle].sent) = 2

\* C11: once the caller has signalled stop on the handle, no reconnect timer
\* is scheduled and no new transport is constructed in any later step.
C11_StopPreventsReconnect ==
    [][ (\E t \in 1..Len(transports) : transports[t].stopped)
          => /\ timers' = <<>>
             /\ Len(transports') = Len(transports) ]_vars

\* C12: no message whose timestamp is older than the staleness threshold is
\* among the frames a relay client received, nor is it the message the client
\* logged as delivered.
C12_StaleNeverForwarded ==
    \A m \in Messages :
        (m.hasTimestamp /\ m.age > 10000)
            => /\ \A i \in 1..Len(client.frames) :
                     client.frames[i] # TextFrame(m.data)
               /\ log # <<"Message", m.data>>

\* C13: the heartbeat reply 'pong' is never among the frames a relay client
\* received and never the message the client logged as delivered.
C13_PongNeverDelivered ==
    /\ \A i \in 1..Len(client.frames) : client.frames[i] # TextFrame("pong")
    /\ log # <<"Message", "pong">>

\* C14: the step in which the client drops an unparseable payload changes
\* nothing but the console: every transport keeps
\* its state, no timer is scheduled, promise and reconnect delay are unchanged;
\* and a parseable message is handled the same whatever was handled before it.
C14_NonJsonDropped ==
    [][ /\ (log' # log /\ log' # <<>> /\ log'[1] = "Non-JSON")
          => /\ transports' = transports
             /\ timers' = timers
             /\ promise' = promise
             /\ reconnectDelay' = reconnectDelay
             /\ waits' = waits
             /\ handle' = handle /\ ws' = ws
             /\ dataGapInterval' = dataGapInterval
             /\ pingInterval' = pingInterval
        /\ (log # <<>> /\ log[1] = "Non-JSON" /\ log' # log)
          => /\ log'[1] \in {"Message", "Stale", "pong"}
             /\ transports' = transports
             /\ timers' = timers ]_vars

C14_Witness ==
    /\ log = <<"Non-JSON", "not-json">>
    /\ promise = "resolved"
    /\ transports[handle].state = "OPEN"
    /\ reconnectDelay = INITIAL_RECONNECT_DELAY
    /\ timers = <<>>

\* C15: a session whose path names no registered kind holds exactly the one
\* frame {"error":"Unknown tool: <name>"}, is closing or closed with status
\* 1008, has called no factory and built no transport, and is Closed.
C15_UnknownToolRejected ==
    (toolName # "" /\ toolName \notin {"connect_news_feed",
                                       "connect_real_time_data_stream"})
        => /\ client.frames
                = << << <<"error", <<"Unknown tool: " \o toolName>> >> >> >>
           /\ client.state \in {"CLOSING", "CLOSED"}
           /\ client.closeCode = 1008
           /\ promise = "none"
           /\ transports = <<>>
           /\ ~piped
           /\ SessionState = "Closed"

C15_Witness ==
    /\ toolName = "not_a_real_tool"
    /\ client.state = "CLOSED"
    /\ Len(client.frames) = 1

\* C16: the step that handles a rejected factory promise finds the client
\* open, appends one error frame and starts the close with status 1011; after
\* it the session is Closed, keeps that status and gets no further frame.
C16_RejectionClosesClient ==
    [][ /\ (reaction = "registered" /\ promise = "rejected")
          => /\ client.state = "OPEN"
             /\ Len(client'.frames) = Len(client.frames) + 1
             /\ client'.frames[Len(client'.frames)][1][1] = "error"
             /\ client'.state = "CLOSING"
             /\ client'.closeCode = 1011
        /\ (reaction = "done" /\ promise = "rejected")
          => /\ SessionState = "Closed"
             /\ client'.state \in {"CLOSING", "CLOSED"}
             /\ client'.closeCode = 1011
             /\ client'.frames = client.frames ]_vars

C16_Witness ==
    /\ promise = "rejected"
    /\ reaction = "done"
    /\ client.state = "CLOSED"
    /\ client.closeCode = 1011
    /\ client.frames =
         <<ErrorFrame("Error executing tool connect_news_feed: "
              \o "websocketKey parameter is required for news feed streaming.")>>

\* C17: the factory of a known kind is called with the parameters of the
\* request's query string, and a news session asked for symbols=["AAPL"] is,
\* once the factory has settled, piping on a handle whose second frame is
\* {type:'filter_symbols', symbols:['AAPL']}.
C17_QueryReachesFactory ==
    /\ (toolName \in {"connect_news_feed", "connect_real_time_data_stream"})
         => /\ params.symbols = client.query.symbols
            /\ params.keywords = client.query.keywords
    /\ (/\ toolName = "connect_news_feed"
        /\ client.query.symbols = << <<"AAPL">> >>
        /\ reaction = "done")
         => /\ piped
            /\ Len(transports[handle].sent) >= 2
            /\ transports[handle].sent[2]
                 = << <<"type", <<"filter_symbols">> >>,
                      <<"symbols", <<"AAPL">> >> >>

IsErrorFrame(f) == f[1][1] = "error"

IsForwardToUpstream(f) == f[1][1] = "MessageEvent"

Edge == <<SessionState, SessionState'>>

C20_UpstreamErrorForwardsOnly ==
    [][ \A t \in 1..Len(transports) :
          (/\ SessionState = "Piping"
           /\ transports[t].wired
           /\ transports[t].state = "OPEN"
           /\ transports'[t].state = "CLOSING"
           /\ client'.state # "CLOSED")
            => /\ client' =
                    [client EXCEPT !.frames = Append(@,
                       << <<"error",
                            <<"Target WebSocket error for " \o toolName>> >> >>)]
               /\ client'.state = "OPEN"
               /\ client'.closeCode = 0
               /\ transports' = [transports EXCEPT ![t].state = "CLOSING"] ]_vars

C20_Witness ==
    /\ piped
    /\ client.state = "OPEN"
    /\ client.frames =
         <<ErrorFrame("Target WebSocket error for connect_news_feed")>>
    /\ transports[handle].state = "CLOSING"

WiredHandleFails(t) ==
    /\ transports[t].wired
    /\ transports[t].state = "CLOSING"
    /\ transports'[t].state = "CLOSED"
    /\ client.state = "OPEN"

\* C21: when the handle of a piping session has failed and its close event
\* arrives while the client is open, the client has been sent no error frame,
\* its channel starts closing with a status other than 1000, and one
\* reconnect timer of 2000 ms is pending.
C21_UpstreamFailureReconnects ==
    [][ \A t \in 1..Len(transports) :
          WiredHandleFails(t)
            => /\ \A i \in 1..Len(client'.frames) :
                     ~IsErrorFrame(client'.frames[i])
               /\ client'.state = "CLOSING"
               /\ client'.closeCode \notin {0, 1000}
               /\ timers' = <<2000>> ]_vars

NewFrames(old, new) == SubSeq(new, Len(old) + 1, Len(new))

C23_ForwardedVerbatim ==
    [][ toolName # "" =>
          /\ (Len(client'.frames) = Len(client.frames) + 1
              /\ ~IsErrorFrame(client'.frames[Len(client'.frames)]))
               => client'.frames[Len(client'.frames)]
                    = << <<"text", <<arrived'[2]>> >> >>
          /\ (piped /\ arrived' # <<>> /\ arrived'[1] = "client"
              /\ Len(transports'[handle].sent) = Len(transports[handle].sent) + 1)
               => transports'[handle].sent[Len(transports'[handle].sent)]
                    \in { << <<"text", <<arrived'[2]>> >> >>,
                          << <<"text", <<"ping">> >> >> } ]_vars

C25_HandleFollowsReconnect ==
    (toolName = "" /\ promise = "resolved" /\ transports[ws].state = "OPEN")
        => handle = ws

\* C27: at most one transport of an instance is connecting or open, and at
\* most one reconnect timer is pending.
C27_OneTransportOneTimer ==
    /\ Cardinality({t \in 1..Len(transports) :
                      transports[t].state \in {"CONNECTING", "OPEN"}}) <= 1
    /\ Len(timers) <= 1

C27_Witness ==
    /\ Len(transports) = 3
    /\ transports[1].state = "CLOSED"
    /\ ~transports[2].opened
    /\ transports[2].state = "CLOSED"
    /\ transports[3].state = "CLOSING"
    /\ timers = <<>>

\* C28: at most one gap-check timer and at most one ping timer are live, and
\* none is live while the instance's current transport is closed.
C28_TimersFollowTransport ==
    /\ gapTimers <= 1
    /\ pingTimers <= 1
    /\ (ws > 0 /\ transports[ws].state = "CLOSED")
         => gapTimers = 0 /\ pingTimers = 0

\* C30: a frame carrying a client message is appended to a socket only in a
\* piping session, only to the session's handle while that handle is open,
\* and only in the step in which that message arrives; a frame carrying an
\* upstream message is appended to the client only while the client is open.
C30_NoBuffering ==
    [][ /\ \A t \in 1..Len(transports) :
             (Len(transports'[t].sent) > Len(transports[t].sent)
              /\ IsForwardToUpstream(transports'[t].sent[Len(transports'[t].sent)]))
               => /\ piped
                  /\ t = handle
                  /\ transports[t].state = "OPEN"
                  /\ client.state = "OPEN"
                  /\ arrived'[1] = "client"
                  /\ transports'[t].sent[Len(transports'[t].sent)][1][2]
                       = <<arrived'[2]>>
        /\ (toolName # "" /\ Len(client'.frames) > Len(client.frames)
            /\ ~IsErrorFrame(client'.frames[Len(client'.frames)]))
               => /\ client.state = "OPEN"
                  /\ piped
                  /\ transports[handle].state = "OPEN"
                  /\ arrived'[1] = "upstream" ]_vars

C30_Witness ==
    /\ piped
    /\ client.state = "OPEN"
    /\ transports[handle].state = "OPEN"
    /\ arrived = <<"client", "news">>
    /\ \A i \in 1..Len(transports[handle].sent) :
          ~IsForwardToUpstream(transports[handle].sent[i])

\* C29: the relay has issued no send on a client channel that was not open.
C29_NoSendOnClosedClient == ~client.sendAfterClose

====
